---- MODULE Spec2Model ----
(***************************************************************************)
(* A model of PDFProcessor (src/pdf_processor.py): the text normalizer,    *)
(* the title extractor, the abstract boundary search, the rule-based and   *)
(* remote section segmenters, the equation/table substitutor and the       *)
(* process_pdf pipeline that chains them.                                  *)
(*                                                                         *)
(* A Python str is a sequence of one-character strings; offsets are the    *)
(* 0-based offsets of the code.  Every regular expression of the code is   *)
(* an operator that returns, for a start offset, the end offset of the     *)
(* match the backtracking matcher finds there (-1: no match).  Character   *)
(* classes are given for the characters of the model's alphabet: ASCII     *)
(* letters, digits, punctuation, space, tab, newline, and the two code     *)
(* points "U+0130" (capital I with dot above) and "U+0307" (combining dot  *)
(* above), each one character of a str.                                    *)
(***************************************************************************)
EXTENDS Integers, Sequences, FiniteSets, TLC

VARIABLES
    pc,         \* the statement of the modelled call that runs next
    client,     \* self.client is set (a remote describer is configured)
    raw,        \* the page text the PDF holds (what PdfSource can read)
    full_text,  \* process_pdf: full_text; the argument of a single call
    tables,     \* process_pdf: tables (each table's data, a list of rows)
    title,      \* process_pdf: title
    span,       \* find_abstract_section's result <<abstract_start, abstract_end>>
    body,       \* process_pdf: content_from_abstract
    text,       \* process_content: text, rebound by every statement
    eqs,        \* process_content: the matches of re.finditer, in order
    k,          \* process_content: the index of the loop that runs
    calls,      \* the describer calls made so far, in order
    sections,   \* parse_sections' result
    out         \* what create_formatted_pdf was called with

vars == <<pc, client, raw, full_text, tables, title, span, body, text, eqs, k,
          calls, sections, out>>

-----------------------------------------------------------------------------
(* Characters *)

UpperSeq == <<"A","B","C","D","E","F","G","H","I","J","K","L","M",
              "N","O","P","Q","R","S","T","U","V","W","X","Y","Z">>
LowerSeq == <<"a","b","c","d","e","f","g","h","i","j","k","l","m",
              "n","o","p","q","r","s","t","u","v","w","x","y","z">>

Range(s) == {s[i] : i \in 1..Len(s)}

IsUpper(c) == c \in Range(UpperSeq)
IsLower(c) == c \in Range(LowerSeq)
IsAsciiLetter(c) == IsUpper(c) \/ IsLower(c)
IsDigit(c) == c \in {"0","1","2","3","4","5","6","7","8","9"}
\* \s of re (and str.strip's whitespace)
IsSpace(c) == c \in {" ", "\n", "\t"}
\* \w of re: str.isalnum() or "_"; U+0130 is a letter, U+0307 a combining mark
IsWord(c) == IsAsciiLetter(c) \/ IsDigit(c) \/ c = "_" \/ c = "U+0130"

\* str.lower() of one character: U+0130 lowers to the two characters i, U+0307
LowerCh(c) ==
    IF IsUpper(c)
    THEN <<LowerSeq[CHOOSE i \in 1..Len(UpperSeq) : UpperSeq[i] = c]>>
    ELSE IF c = "U+0130" THEN <<"i", "U+0307">> ELSE <<c>>

Min(S) == CHOOSE x \in S : \A y \in S : x <= y
Max(S) == CHOOSE x \in S : \A y \in S : x >= y

-----------------------------------------------------------------------------
(* str operations *)

\* s[a:b] for 0 <= a
Slice(s, a, b) == SubSeq(s, a + 1, IF b < Len(s) THEN b ELSE Len(s))
\* s[a:]
SliceFrom(s, a) == Slice(s, a, Len(s))

RECURSIVE Flatten(_)
Flatten(ss) == IF ss = <<>> THEN <<>> ELSE Head(ss) \o Flatten(Tail(ss))

\* str.lower(): character by character; each U+0130 before a character moves
\* it one place to the right
Lower(s) ==
    LET wide == {i \in 1..Len(s) : Len(LowerCh(s[i])) = 2}
        \* where character i of s starts in the result, less one
        at(i) == (i - 1) + Cardinality({m \in wide : m < i})
    IN  IF wide = {} THEN [i \in 1..Len(s) |-> LowerCh(s[i])[1]]
        ELSE [j \in 1..(Len(s) + Cardinality(wide)) |->
                 LET i == CHOOSE x \in 1..Len(s) :
                              at(x) < j /\ j <= at(x) + Len(LowerCh(s[x]))
                 IN  LowerCh(s[i])[j - at(i)]]

\* s.startswith(sub, i)
StartsWithAt(s, sub, i) ==
    /\ i + Len(sub) <= Len(s)
    /\ \A j \in 1..Len(sub) : s[i + j] = sub[j]

\* s.find(sub, from)
Find(s, sub, from) ==
    LET hits == {i \in from..(Len(s) - Len(sub)) : StartsWithAt(s, sub, i)}
    IN  IF hits = {} THEN -1 ELSE Min(hits)

\* sub in s
Contains(s, sub) == Find(s, sub, 0) # -1

\* s.replace(old, new), from offset i on: every non-overlapping occurrence,
\* left to right
RECURSIVE ReplaceFrom(_, _, _, _)
ReplaceFrom(s, old, new, i) ==
    LET j == Find(s, old, i)
    IN  IF j = -1 THEN SliceFrom(s, i)
        ELSE Slice(s, i, j) \o new \o ReplaceFrom(s, old, new, j + Len(old))

Replace(s, old, new) == ReplaceFrom(s, old, new, 0)

\* s.strip()
Strip(s) ==
    LET keep == {i \in 1..Len(s) : ~IsSpace(s[i])}
    IN  IF keep = {} THEN <<>> ELSE SubSeq(s, Min(keep), Max(keep))

\* the end of the maximal run of characters of class In(_) that starts at i
RunEnd(s, i, In(_)) ==
    LET stops == {j \in i..(Len(s) - 1) : ~In(s[j + 1])}
    IN  IF stops = {} THEN Len(s) ELSE Min(stops)

\* \b at offset i: exactly one of the characters around i is a word character
WordBoundary(s, i) ==
    LET before == i >= 1 /\ i <= Len(s) /\ IsWord(s[i])
        after  == i < Len(s) /\ IsWord(s[i + 1])
    IN  before # after

\* re.sub(pattern, repl, s) from offset i on, the pattern given by ends: ends[i]
\* is the end of its match at offset i, or -1
RECURSIVE SubFrom(_, _, _, _)
SubFrom(s, ends, repl, i) ==
    LET starts == {j \in i..(Len(s) - 1) : ends[j] # -1}
    IN  IF starts = {} THEN SliceFrom(s, i)
        ELSE LET j == Min(starts)
             IN  Slice(s, i, j) \o repl \o SubFrom(s, ends, repl, ends[j])

Sub(s, repl, MatchEnd(_, _)) ==
    SubFrom(s, [i \in 0..Len(s) |-> MatchEnd(s, i)], repl, 0)

\* re.search(pattern, s): the offset of the leftmost match, or -1
Search(s, MatchEnd(_, _)) ==
    LET starts == {i \in 0..Len(s) : MatchEnd(s, i) # -1}
    IN  IF starts = {} THEN -1 ELSE Min(starts)

-----------------------------------------------------------------------------
(* remove_urls *)

S_http == <<"h","t","t","p">>
S_colon_slashes == <<":","/","/">>
S_www == <<"w","w","w",".">>
S_doi == <<"d","o","i",":">>

\* (?:[a-zA-Z]|[0-9]|[$-_@.&+]|[!*\\(\\),]|(?:%[0-9a-fA-F][0-9a-fA-F])):
\* the range $-_ is every ASCII character from "$" to "_"
IsUrlChar(c) ==
    \/ IsAsciiLetter(c) \/ IsDigit(c)
    \/ c \in {"$", "%", "&", "'", "(", ")", "*", "+", ",", "-", ".", "/",
              ":", ";", "<", "=", ">", "?", "@", "[", "\\", "]", "^", "_"}
    \/ c = "!"

\* http[s]?://(?:...)+
HttpUrlEnd(s, i) ==
    LET p == IF StartsWithAt(s, S_http, i)
             THEN IF StartsWithAt(s, <<"s">>, i + 4) THEN i + 5 ELSE i + 4
             ELSE -1
        q == IF p # -1 /\ StartsWithAt(s, S_colon_slashes, p) THEN p + 3 ELSE -1
    IN  IF q # -1 /\ q < Len(s) /\ IsUrlChar(s[q + 1])
        THEN RunEnd(s, q, IsUrlChar) ELSE -1

\* www\.(?:...)+
WwwUrlEnd(s, i) ==
    IF StartsWithAt(s, S_www, i) /\ i + 4 < Len(s) /\ IsUrlChar(s[i + 5])
    THEN RunEnd(s, i + 4, IsUrlChar) ELSE -1

IsNotSpace(c) == ~IsSpace(c)

\* doi:\s*[^\s]+
DoiEnd(s, i) ==
    IF StartsWithAt(s, S_doi, i)
    THEN LET q == RunEnd(s, i + 4, IsSpace)
         IN  IF q < Len(s) THEN RunEnd(s, q, IsNotSpace) ELSE -1
    ELSE -1

\* [A-Za-z0-9._%+-]
IsEmailLocal(c) == IsAsciiLetter(c) \/ IsDigit(c) \/ c \in {".", "_", "%", "+", "-"}
\* [A-Za-z0-9.-]
IsEmailDomain(c) == IsAsciiLetter(c) \/ IsDigit(c) \/ c \in {".", "-"}
\* [A-Z|a-z]
IsEmailTld(c) == IsAsciiLetter(c) \/ c = "|"

\* \b[A-Za-z0-9._%+-]+@[A-Za-z0-9.-]+\.[A-Z|a-z]{2,}\b: the domain is greedy,
\* so the last "." of its run that a top-level part and \b can follow is
\* taken, and after it the longest top-level part that ends at a \b
EmailEnd(s, i) ==
    IF ~(i < Len(s) /\ IsEmailLocal(s[i + 1]) /\ WordBoundary(s, i)) THEN -1
    ELSE
    LET at == RunEnd(s, i, IsEmailLocal)
    IN  IF ~StartsWithAt(s, <<"@">>, at) THEN -1
        ELSE
        LET dom  == at + 1
            domE == RunEnd(s, dom, IsEmailDomain)
            \* the ends a match can have after the "." at offset d
            tldEnds(d) ==
                {e \in (d + 3)..RunEnd(s, d + 1, IsEmailTld) : WordBoundary(s, e)}
            dots == {d \in (dom + 1)..(domE - 1) :
                        s[d + 1] = "." /\ tldEnds(d) # {}}
        IN  IF dots = {} THEN -1 ELSE Max(tldEnds(Max(dots)))

\* \s+
SpacesEnd(s, i) ==
    IF i < Len(s) /\ IsSpace(s[i + 1]) THEN RunEnd(s, i, IsSpace) ELSE -1

remove_urls(t) ==
    LET t1 == Sub(t, <<>>, HttpUrlEnd)
        t2 == Sub(t1, <<>>, WwwUrlEnd)
        t3 == Sub(t2, <<>>, DoiEnd)
        t4 == Sub(t3, <<>>, EmailEnd)
        t5 == Sub(t4, <<" ">>, SpacesEnd)
    IN  Strip(t5)

-----------------------------------------------------------------------------
(* extract_title *)

TitleScanLines == 15
TitleMinLen == 10
TitleMaxLen == 300
FallbackScanLines == 5
FallbackMinLen == 15

S_untitled == <<"U","n","t","i","t","l","e","d"," ","D","o","c","u","m","e","n","t">>
S_page == <<"p","a","g","e">>
S_vol == <<"v","o","l">>

\* the markers of line 109
HeaderMarkers ==
    { <<"h","t","t","p">>, <<"w","w","w",".">>, <<"@">>, <<"a","r","x","i","v">>,
      <<"v","o","l","u","m","e">>, <<"j","o","u","r","n","a","l">>,
      <<"i","s","s","n">>, <<"d","o","i",":">>, <<"p","a","g","e">> }

\* the markers of line 115
MetadataMarkers ==
    { <<"a","b","s","t","r","a","c","t">>, <<"a","u","t","h","o","r">>,
      <<"u","n","i","v","e","r","s","i","t","y">>,
      <<"d","e","p","a","r","t","m","e","n","t">>,
      <<"p","u","b","l","i","s","h","e","d">>, <<"r","e","c","e","i","v","e","d">> }

\* s.split('\n')
RECURSIVE SplitLines(_)
SplitLines(s) ==
    LET j == Find(s, <<"\n">>, 0)
    IN  IF j = -1 THEN <<s>>
        ELSE <<Slice(s, 0, j)>> \o SplitLines(SliceFrom(s, j + 1))

\* lines[:n]
FirstN(lines, n) == SubSeq(lines, 1, IF n < Len(lines) THEN n ELSE Len(lines))

\* the whole word w at offset i: \bw\b
WholeWordEnd(s, w, i) ==
    IF StartsWithAt(s, w, i) /\ WordBoundary(s, i) /\ WordBoundary(s, i + Len(w))
    THEN i + Len(w) ELSE -1

\* re.search(r'\d{4}|\bpage\b|\bvol\b', low)
LooksLikeDateOrPage(low) ==
    \/ \E i \in 0..(Len(low) - 4) : \A j \in 1..4 : IsDigit(low[i + j])
    \/ \E i \in 0..Len(low) : WholeWordEnd(low, S_page, i) # -1
    \/ \E i \in 0..Len(low) : WholeWordEnd(low, S_vol, i) # -1

\* the tests of lines 107-116 on a stripped line: TRUE when the loop skips it
TitleLineSkipped(line) ==
    LET low == Lower(line)
    IN  \/ Len(line) < TitleMinLen \/ Len(line) > TitleMaxLen
        \/ \E x \in HeaderMarkers : Contains(low, x)
        \/ LooksLikeDateOrPage(low)
        \/ \E x \in MetadataMarkers : Contains(low, x)

\* the fallback loop of lines 125-129 over lines[i..]: the first longest line
RECURSIVE LongestFrom(_, _, _)
LongestFrom(lines, i, longest) ==
    IF i > Len(lines) THEN longest
    ELSE LET line == Strip(lines[i])
         IN  LongestFrom(lines, i + 1,
                 IF Len(line) > Len(longest) /\ Len(line) > FallbackMinLen
                 THEN line ELSE longest)

\* as extract_title_rule_based, the lines tested and returned as they are read
extract_title_unstripped(t) ==
    LET lines == SplitLines(t)
        head  == FirstN(lines, TitleScanLines)
        potential_titles == SelectSeq(head, LAMBDA line : ~TitleLineSkipped(line))
        longest == LongestFrom(FirstN(lines, FallbackScanLines), 1, <<>>)
    IN  IF potential_titles # <<>> THEN potential_titles[1]
        ELSE IF longest # <<>> THEN longest ELSE S_untitled

extract_title_rule_based(t) ==
    LET lines == SplitLines(t)
        head  == FirstN(lines, TitleScanLines)
        potential_titles ==
            SelectSeq([i \in 1..Len(head) |-> Strip(head[i])],
                      LAMBDA line : ~TitleLineSkipped(line))
        longest == LongestFrom(FirstN(lines, FallbackScanLines), 1, <<>>)
    IN  IF potential_titles # <<>> THEN potential_titles[1]
        ELSE IF longest # <<>> THEN longest ELSE S_untitled

extract_title(t) == extract_title_rule_based(t)

-----------------------------------------------------------------------------
(* find_abstract_section *)

S_abstract == <<"a","b","s","t","r","a","c","t">>
S_summary == <<"s","u","m","m","a","r","y">>
S_introduction == <<"i","n","t","r","o","d","u","c","t","i","o","n">>
S_keywords == <<"k","e","y","w","o","r","d","s">>

\* \babstract\b
AbstractEnd(s, i) == WholeWordEnd(s, S_abstract, i)
\* \bsummary\b
SummaryEnd(s, i) == WholeWordEnd(s, S_summary, i)
\* \bintroduction\b
IntroductionEnd(s, i) == WholeWordEnd(s, S_introduction, i)
\* \bkeywords\b
KeywordsEnd(s, i) == WholeWordEnd(s, S_keywords, i)

\* \b1\s*\.?\s*introduction\b
NumberedIntroductionEnd(s, i) ==
    IF ~(StartsWithAt(s, <<"1">>, i) /\ WordBoundary(s, i)) THEN -1
    ELSE LET q  == RunEnd(s, i + 1, IsSpace)
             q2 == IF StartsWithAt(s, <<".">>, q)
                   THEN RunEnd(s, q + 1, IsSpace) ELSE q
         IN  IF StartsWithAt(s, S_introduction, q2)
                /\ WordBoundary(s, q2 + Len(S_introduction))
             THEN q2 + Len(S_introduction) ELSE -1

\* the loop of lines 164-168: the first pattern of the list that matches
AbstractStart(text_lower) ==
    LET a == Search(text_lower, AbstractEnd)
    IN  IF a # -1 THEN a ELSE Search(text_lower, SummaryEnd)

\* the loop of lines 176-180 over text_lower[abstract_start:]
AbstractEndOffset(t, text_lower, abstract_start) ==
    LET rest == SliceFrom(text_lower, abstract_start)
        m1 == Search(rest, IntroductionEnd)
        m2 == Search(rest, NumberedIntroductionEnd)
        m3 == Search(rest, KeywordsEnd)
    IN  IF m1 # -1 THEN abstract_start + m1
        ELSE IF m2 # -1 THEN abstract_start + m2
        ELSE IF m3 # -1 THEN abstract_start + m3
        ELSE Len(t)

find_abstract_section(t) ==
    LET text_lower == Lower(t)
        abstract_start == AbstractStart(text_lower)
    IN  IF abstract_start = -1 THEN <<-1, -1>>
        ELSE <<abstract_start, AbstractEndOffset(t, text_lower, abstract_start)>>

-----------------------------------------------------------------------------
(* _parse_sections_rule_based *)

NumberedRestMin == 3
NumberedRestMax == 60
CapsRestMin == 3
CapsRestMax == 50
TitleCaseMoreWords == 4
HeaderMinLen == 3
SectionMinLen == 50

S_content == <<"C","o","n","t","e","n","t">>

\* the alternatives of the fourth pattern, in its order
SectionNames ==
    << <<"A","b","s","t","r","a","c","t">>,
       <<"I","n","t","r","o","d","u","c","t","i","o","n">>,
       <<"R","e","l","a","t","e","d"," ","W","o","r","k">>,
       <<"B","a","c","k","g","r","o","u","n","d">>,
       <<"M","e","t","h","o","d","o","l","o","g","y">>,
       <<"M","e","t","h","o","d","s">>,
       <<"R","e","s","u","l","t","s">>,
       <<"D","i","s","c","u","s","s","i","o","n">>,
       <<"C","o","n","c","l","u","s","i","o","n">>,
       <<"R","e","f","e","r","e","n","c","e","s">>,
       <<"A","c","k","n","o","w","l","e","d","g","m","e","n","t","s">> >>

\* the characters line 238 rejects a header for
HeaderSpecialChars == {":", "(", ")", "[", "]"}

\* the simple case folding re.IGNORECASE compares characters by
Fold(c) == IF c = "U+0130" THEN "i" ELSE LowerCh(c)[1]
\* [A-Z] and [a-z] under re.IGNORECASE
IsLetterIC(c) == IsAsciiLetter(c) \/ c = "U+0130"
\* [A-Z\s] under re.IGNORECASE
IsLetterOrSpace(c) == IsLetterIC(c) \/ IsSpace(c)

\* the literal w at offset i under re.IGNORECASE
StartsWithAtIC(s, w, i) ==
    /\ i + Len(w) <= Len(s)
    /\ \A j \in 1..Len(w) : Fold(s[i + j]) = Fold(w[j])

NoMatch == [gs |-> -1, ge |-> -1, end |-> -1]

\* the \s*\n that closes every pattern, after a group that ends at ge: \s* is
\* greedy, so the match ends after the last newline of the run of whitespace
LineTailEnd(s, ge) ==
    LET r  == RunEnd(s, ge, IsSpace)
        nl == {j \in ge..(r - 1) : s[j + 1] = "\n"}
    IN  IF nl = {} THEN -1 ELSE Max(nl) + 1

\* the \n\s* that opens every pattern at offset p: the offset its group starts
\* at, or -1
GroupStart(s, p) ==
    IF p < Len(s) /\ s[p + 1] = "\n" THEN RunEnd(s, p + 1, IsSpace) ELSE -1

\* \n\s*(\d+\.?\d*\.?\s+[A-Z][^\n]{3,60})\s*\n
NumberedMatch(s, p) ==
    LET g  == GroupStart(s, p)
        q1 == RunEnd(s, g, IsDigit)
        q2 == IF StartsWithAt(s, <<".">>, q1) THEN q1 + 1 ELSE q1
        q3 == RunEnd(s, q2, IsDigit)
        q4 == IF StartsWithAt(s, <<".">>, q3) THEN q3 + 1 ELSE q3
        q5 == RunEnd(s, q4, IsSpace)
        e  == Find(s, <<"\n">>, q5 + 1)
        \* [^\n]{3,60} gives characters back until only whitespace is left
        \* before the end of the line
        ns == {n \in NumberedRestMin..NumberedRestMax :
                  /\ q5 + 1 + n <= e
                  /\ \A j \in (q5 + 1 + n)..(e - 1) : IsSpace(s[j + 1])}
    IN  IF g = -1 \/ q1 = g \/ q5 = q4 \/ q5 >= Len(s) THEN NoMatch
        ELSE IF ~IsLetterIC(s[q5 + 1]) \/ e = -1 \/ ns = {} THEN NoMatch
        ELSE LET ge == q5 + 1 + Max(ns)
             IN  [gs |-> g, ge |-> ge, end |-> LineTailEnd(s, ge)]

\* \n\s*([A-Z][A-Z\s]{3,50})\s*\n
AllCapsMatch(s, p) ==
    LET g  == GroupStart(s, p)
        r  == RunEnd(s, g + 1, IsLetterOrSpace)
        ns == {n \in CapsRestMin..CapsRestMax :
                  g + 1 + n <= r /\ LineTailEnd(s, g + 1 + n) # -1}
    IN  IF g = -1 \/ g >= Len(s) THEN NoMatch
        ELSE IF ~IsLetterIC(s[g + 1]) \/ ns = {} THEN NoMatch
        ELSE LET ge == g + 1 + Max(ns)
             IN  [gs |-> g, ge |-> ge, end |-> LineTailEnd(s, ge)]

\* [A-Z][a-z]+ at offset i: the end of the run of letters, or -1
WordEnd(s, i) ==
    LET r == RunEnd(s, i, IsLetterIC)
    IN  IF i >= 0 /\ r >= i + 2 THEN r ELSE -1

\* the ends of the words the group [A-Z][a-z]+(?:\s+[A-Z][a-z]+){0,4} can take
\* from offset i, the first word included: n more words are allowed
RECURSIVE WordEnds(_, _, _)
WordEnds(s, i, n) ==
    LET w  == WordEnd(s, i)
        sp == RunEnd(s, w, IsSpace)
    IN  IF w = -1 THEN {}
        ELSE IF n = 0 \/ sp = w THEN {w}
        ELSE {w} \cup WordEnds(s, sp, n - 1)

\* \n\s*([A-Z][a-z]+(?:\s+[A-Z][a-z]+){0,4})\s*\n
TitleCaseMatch(s, p) ==
    LET g   == GroupStart(s, p)
        ges == {w \in WordEnds(s, g, TitleCaseMoreWords) : LineTailEnd(s, w) # -1}
    IN  IF g = -1 \/ ges = {} THEN NoMatch
        ELSE [gs |-> g, ge |-> Max(ges), end |-> LineTailEnd(s, Max(ges))]

\* \n\s*(Abstract|Introduction|...|Acknowledgments)\s*\n
WhitelistMatch(s, p) ==
    LET g  == GroupStart(s, p)
        ws == {i \in 1..Len(SectionNames) :
                  /\ StartsWithAtIC(s, SectionNames[i], g)
                  /\ LineTailEnd(s, g + Len(SectionNames[i])) # -1}
    IN  IF g = -1 \/ ws = {} THEN NoMatch
        ELSE LET ge == g + Len(SectionNames[Min(ws)])
             IN  [gs |-> g, ge |-> ge, end |-> LineTailEnd(s, ge)]

\* re.finditer over s from offset i on, the pattern given by ms: ms[p] is its
\* match at offset p.  Each match is kept as <<match.start(), header>> unless
\* line 238 drops it
RECURSIVE FindIter(_, _, _)
FindIter(s, ms, i) ==
    LET starts == {p \in i..(Len(s) - 1) : ms[p].end # -1}
    IN  IF starts = {} THEN <<>>
        ELSE LET p == Min(starts)
                 header == Strip(Slice(s, ms[p].gs, ms[p].ge))
                 dropped == \/ Len(header) < HeaderMinLen
                            \/ \E j \in 1..Len(header) :
                                  header[j] \in HeaderSpecialChars
             IN  (IF dropped THEN <<>> ELSE << <<p, header>> >>)
                 \o FindIter(s, ms, ms[p].end)

\* the loops of lines 234-240: the matches of the four patterns, pattern by
\* pattern
HeaderMatches(s) ==
    FindIter(s, [p \in 0..Len(s) |-> NumberedMatch(s, p)], 0)
    \o FindIter(s, [p \in 0..Len(s) |-> AllCapsMatch(s, p)], 0)
    \o FindIter(s, [p \in 0..Len(s) |-> TitleCaseMatch(s, p)], 0)
    \o FindIter(s, [p \in 0..Len(s) |-> WhitelistMatch(s, p)], 0)

\* as lines 243-251 with the last match of an offset kept instead of the first
UniqueMatchesLastWins(matches) ==
    LET lasts == {i \in 1..Len(matches) :
                     \A j \in (i + 1)..Len(matches) :
                         matches[j][1] # matches[i][1]}
        RECURSIVE InOrder(_)
        InOrder(left) ==
            IF left = {} THEN <<>>
            ELSE LET i == CHOOSE x \in left :
                              \A y \in left : matches[x][1] <= matches[y][1]
                 IN  <<matches[i]>> \o InOrder(left \ {i})
    IN  InOrder(lasts)

\* lines 243-251: sorted is stable, so of the matches at one offset the first of
\* the list is kept; the result is in offset order
UniqueMatches(matches) ==
    LET firsts == {i \in 1..Len(matches) :
                      \A j \in 1..(i - 1) : matches[j][1] # matches[i][1]}
        \* the i-th smallest offset's index
        RECURSIVE InOrder(_)
        InOrder(left) ==
            IF left = {} THEN <<>>
            ELSE LET i == CHOOSE x \in left :
                              \A y \in left : matches[x][1] <= matches[y][1]
                 IN  <<matches[i]>> \o InOrder(left \ {i})
    IN  InOrder(firsts)

\* as lines 254-269 without the test of line 263
SectionsOfAnyLength(s, unique_matches) ==
    LET content(i) ==
            LET start == unique_matches[i][1]
                end   == IF i + 1 <= Len(unique_matches)
                         THEN unique_matches[i + 1][1] ELSE Len(s)
            IN  Strip(SliceFrom(Slice(s, start, end), Len(unique_matches[i][2])))
    IN  [i \in 1..Len(unique_matches) |->
            [heading |-> unique_matches[i][2], content |-> content(i)]]

\* lines 254-269
SectionsOf(s, unique_matches) ==
    LET content(i) ==
            LET start == unique_matches[i][1]
                end   == IF i + 1 <= Len(unique_matches)
                         THEN unique_matches[i + 1][1] ELSE Len(s)
            IN  Strip(SliceFrom(Slice(s, start, end), Len(unique_matches[i][2])))
        all == [i \in 1..Len(unique_matches) |->
                   [heading |-> unique_matches[i][2], content |-> content(i)]]
    IN  SelectSeq(all, LAMBDA sec : Len(sec.content) >= SectionMinLen)

parse_sections_rule_based(s) ==
    LET found == SectionsOf(s, UniqueMatches(HeaderMatches(s)))
    IN  IF found = <<>> THEN << [heading |-> S_content, content |-> s] >>
        ELSE found

-----------------------------------------------------------------------------
(* The describers *)

S_math_equation == <<"M","a","t","h","e","m","a","t","i","c","a","l"," ","e","q","u","a","t","i","o","n",":"," ">>
S_math_expression == <<"M","a","t","h","e","m","a","t","i","c","a","l"," ","e","x","p","r","e","s","s","i","o","n",":"," ">>
S_formula == <<"F","o","r","m","u","l","a",":"," ">>
S_table_with == <<"T","a","b","l","e"," ","w","i","t","h"," ">>
S_rows_and == <<" ","r","o","w","s"," ","a","n","d"," ">>
S_columns == <<" ","c","o","l","u","m","n","s","."," ">>
S_columns_include == <<"C","o","l","u","m","n","s"," ","i","n","c","l","u","d","e",":"," ">>
S_sample_data == <<"S","a","m","p","l","e"," ","d","a","t","a",":"," ">>
SampleCells == 3

\* str(n) for n >= 0
RECURSIVE Str(_)
Str(n) ==
    LET d == <<"0","1","2","3","4","5","6","7","8","9">>[(n % 10) + 1]
    IN  IF n < 10 THEN <<d>> ELSE Str(n \div 10) \o <<d>>

\* sep.join(parts)
RECURSIVE Join(_, _)
Join(sep, parts) ==
    IF parts = <<>> THEN <<>>
    ELSE IF Len(parts) = 1 THEN parts[1]
    ELSE parts[1] \o sep \o Join(sep, Tail(parts))

\* [str(x) for x in cells if x]: a cell is its text, <<>> for None or ""
Truthy(cells) == SelectSeq(cells, LAMBDA x : x # <<>>)

\* " ".join(description.strip().split())
OneParagraph(reply) == Strip(Sub(reply, <<" ">>, SpacesEnd))

describe_equation_rule_based(equation_text) ==
    IF \E i \in 1..Len(equation_text) : equation_text[i] = "="
    THEN S_math_equation \o equation_text
    ELSE IF \E i \in 1..Len(equation_text) :
                equation_text[i] \in {"+", "-", "*", "/", "^"}
    THEN S_math_expression \o equation_text
    ELSE S_formula \o equation_text

describe_table_rule_based(table_data) ==
    IF table_data = <<>> THEN <<>>
    ELSE
    LET rows == Len(table_data)
        cols == Len(table_data[1])
        header_text == Join(<<",", " ">>, Truthy(table_data[1]))
        sample_text ==
            Join(<<",", " ">>, Truthy(FirstN(table_data[2], SampleCells)))
    IN  S_table_with \o Str(rows) \o S_rows_and \o Str(cols) \o S_columns
        \o (IF header_text # <<>>
            THEN S_columns_include \o header_text \o <<".", " ">> ELSE <<>>)
        \o (IF rows > 1 THEN S_sample_data \o sample_text \o <<".">> ELSE <<>>)

\* What one call of self.client.messages.create can do: raise (ok = FALSE), an
\* empty message.content included, or answer with a text
NoRemote == [ok |-> FALSE, text |-> <<>>]

\* How a call ends: it returns a value, or an exception leaves it
Returned(v) == [raised |-> FALSE, value |-> v]
Raised == [raised |-> TRUE, value |-> <<>>]

\* as _describe_equation_with_llm without its except clause
describe_equation_with_llm_uncaught(equation_text, r) ==
    IF r.ok THEN Returned(OneParagraph(r.text)) ELSE Raised

\* _describe_equation_with_llm, the remote call doing r: the except clause of
\* lines 414-416 returns the rule-based description
describe_equation_with_llm(equation_text, r) ==
    IF r.ok THEN Returned(OneParagraph(r.text))
    ELSE Returned(describe_equation_rule_based(equation_text))

\* _describe_table_with_llm, the remote call doing r: the except clause of
\* lines 369-371 returns the rule-based description
describe_table_with_llm(table_data, r) ==
    IF r.ok THEN Returned(OneParagraph(r.text))
    ELSE Returned(describe_table_rule_based(table_data))

describe_equation(c, equation_text, r) ==
    IF c THEN describe_equation_with_llm(equation_text, r)
    ELSE Returned(describe_equation_rule_based(equation_text))

describe_table(c, table_data, r) ==
    IF c THEN describe_table_with_llm(table_data, r)
    ELSE Returned(describe_table_rule_based(table_data))

-----------------------------------------------------------------------------
(* process_content *)

S_equation_open == <<"[","E","q","u","a","t","i","o","n",":"," ">>
S_table_open == <<"[","T","a","b","l","e"," ">>
S_table == <<"t","a","b","l","e">>
S_begin_equation == <<"\\","b","e","g","i","n","{","e","q","u","a","t","i","o","n","}">>
S_end_equation == <<"\\","e","n","d","{","e","q","u","a","t","i","o","n","}">>

\* \$\$.*?\$\$|\$.*?\$|\\begin\{equation\}.*?\\end\{equation\} with re.DOTALL:
\* the alternatives in order, each lazy up to its first closing delimiter
EquationEnd(s, i) ==
    LET dd == IF StartsWithAt(s, <<"$", "$">>, i)
              THEN Find(s, <<"$", "$">>, i + 2) ELSE -1
        d  == IF StartsWithAt(s, <<"$">>, i) THEN Find(s, <<"$">>, i + 1) ELSE -1
        e  == IF StartsWithAt(s, S_begin_equation, i)
              THEN Find(s, S_end_equation, i + Len(S_begin_equation)) ELSE -1
    IN  IF dd # -1 THEN dd + 2
        ELSE IF d # -1 THEN d + 1
        ELSE IF e # -1 THEN e + Len(S_end_equation)
        ELSE -1

\* [m.group() for m in re.finditer(pattern, s)] from offset i on
RECURSIVE GroupsFrom(_, _, _)
GroupsFrom(s, ends, i) ==
    LET starts == {j \in i..(Len(s) - 1) : ends[j] # -1}
    IN  IF starts = {} THEN <<>>
        ELSE LET j == Min(starts)
             IN  <<Slice(s, j, ends[j])>> \o GroupsFrom(s, ends, ends[j])

EquationMatches(s) == GroupsFrom(s, [i \in 0..Len(s) |-> EquationEnd(s, i)], 0)

\* f"[Equation: {description}]"
EquationBlock(description) == S_equation_open \o description \o <<"]">>

\* as line 430 with text.replace(equation, ..., 1): the first occurrence only
ReplaceFirstEquation(s, equation, description) ==
    LET j == Find(s, equation, 0)
    IN  IF j = -1 THEN s
        ELSE Slice(s, 0, j) \o EquationBlock(description)
             \o SliceFrom(s, j + Len(equation))

\* line 430
ReplaceEquation(s, equation, description) ==
    Replace(s, equation, EquationBlock(description))

\* f"\n\n[Table {i+1}: {table_desc}]\n\n", n being i+1
TableMarker(n, table_desc) ==
    <<"\n", "\n">> \o S_table_open \o Str(n) \o <<":", " ">> \o table_desc
    \o <<"]", "\n", "\n">>

\* the end of the leftmost match of rf'Table\s+{n}' under re.IGNORECASE, or -1
TableRefEnd(s, n) ==
    LET end(i) ==
            LET q == RunEnd(s, i + Len(S_table), IsSpace)
            IN  IF /\ StartsWithAtIC(s, S_table, i)
                   /\ q > i + Len(S_table)
                   /\ StartsWithAt(s, Str(n), q)
                THEN q + Len(Str(n)) ELSE -1
        starts == {i \in 0..Len(s) : end(i) # -1}
    IN  IF starts = {} THEN -1 ELSE end(Min(starts))

\* as lines 436-441 with an else branch that appends the marker to the text
InsertTableOrAppend(s, n, table_desc) ==
    LET insert_pos == TableRefEnd(s, n)
    IN  IF insert_pos = -1 THEN s \o TableMarker(n, table_desc)
        ELSE Slice(s, 0, insert_pos) \o TableMarker(n, table_desc)
             \o SliceFrom(s, insert_pos)

\* lines 436-441
InsertTable(s, n, table_desc) ==
    LET insert_pos == TableRefEnd(s, n)
    IN  IF insert_pos = -1 THEN s
        ELSE Slice(s, 0, insert_pos) \o TableMarker(n, table_desc)
             \o SliceFrom(s, insert_pos)

-----------------------------------------------------------------------------
(* parse_sections *)

\* What the remote call of _parse_sections_with_llm can do: raise; answer a text
\* in which re.search(r'\[.*\]') finds nothing ("no_array"); answer one whose
\* bracketed part json.loads rejects ("bad_json"); or answer one whose bracketed
\* part is the JSON array given as sections
LlmSectionArrays ==
    { <<>>,
      << [heading |-> <<"O","v","e","r","v","i","e","w">>,
          content |-> <<"t","e","x","t">>] >> }

SectionReplies(c) ==
    IF c
    THEN {[kind |-> x, sections |-> <<>>] : x \in {"raise", "no_array", "bad_json"}}
         \cup {[kind |-> "array", sections |-> a] : a \in LlmSectionArrays}
    ELSE {[kind |-> "raise", sections |-> <<>>]}

\* _parse_sections_with_llm, the remote call doing r: what json.loads made of
\* the array is returned as it is; lines 302-306 fall back to the rules
parse_sections_with_llm(t, r) ==
    IF r.kind = "array" THEN Returned(r.sections)
    ELSE Returned(parse_sections_rule_based(t))

parse_sections(c, t, r) ==
    IF c THEN parse_sections_with_llm(t, r)
    ELSE Returned(parse_sections_rule_based(t))

-----------------------------------------------------------------------------
(* process_pdf *)

HeaderSkip == 500

\* \b(introduction|1\s*\.?\s*introduction)\b under re.IGNORECASE, at offset i
IntroHeadingEnd(s, i) ==
    LET wordEnd(q) ==
            IF StartsWithAtIC(s, S_introduction, q)
               /\ WordBoundary(s, q + Len(S_introduction))
            THEN q + Len(S_introduction) ELSE -1
        q1 == RunEnd(s, i + 1, IsSpace)
        q2 == IF StartsWithAt(s, <<".">>, q1) THEN RunEnd(s, q1 + 1, IsSpace) ELSE q1
    IN  IF ~WordBoundary(s, i) THEN -1
        ELSE IF wordEnd(i) # -1 THEN wordEnd(i)
        ELSE IF StartsWithAt(s, <<"1">>, i) THEN wordEnd(q2)
        ELSE -1

\* as lines 558-569 with the test abstract_start >= 0
content_from_abstract_any_start(t, abstract_start) ==
    IF abstract_start >= 0 THEN SliceFrom(t, abstract_start)
    ELSE LET intro_match == Search(t, IntroHeadingEnd)
         IN  IF intro_match # -1 THEN SliceFrom(t, intro_match)
             ELSE IF Len(t) > HeaderSkip THEN SliceFrom(t, HeaderSkip) ELSE t

\* lines 558-569
content_from_abstract(t, abstract_start) ==
    IF abstract_start > 0 THEN SliceFrom(t, abstract_start)
    ELSE LET intro_match == Search(t, IntroHeadingEnd)
         IN  IF intro_match # -1 THEN SliceFrom(t, intro_match)
             ELSE IF Len(t) > HeaderSkip THEN SliceFrom(t, HeaderSkip) ELSE t

\* the answers the remote describer gives in the model
LlmReplies == { <<"s","l","o","p","e">>, <<" ","a","\n","b"," ">> }

RemoteOutcomes(c) ==
    IF c THEN {[ok |-> TRUE, text |-> t] : t \in LlmReplies} \cup {NoRemote}
    ELSE {NoRemote}

\* where process_content goes on after its statement at pc, loop index k
NextStatement(at, n_eqs, n_tables) ==
    IF at = "equations" /\ n_eqs > 0 THEN "equations"
    ELSE IF n_tables > 0 THEN "tables"
    ELSE "parse_sections"

\* extract_text_from_pdf on a PDF of one page: pdfplumber or, after it raised,
\* pypdf reads the page (read), or both raise and the except clauses of lines
\* 47-57 leave text empty
extract_text_from_pdf(doc, read) ==
    Returned(IF read /\ doc.text # <<>> THEN doc.text \o <<"\n", "\n">> ELSE <<>>)

\* extract_tables_from_pdf: the n tables appended before pdfplumber raised, or
\* all of them
extract_tables_from_pdf(doc, n) == Returned(SubSeq(doc.tables, 1, n))

\* a call of process_pdf's that raised ends process_pdf
Propagate ==
    /\ pc' = "raised"
    /\ UNCHANGED <<client, raw, full_text, tables, title, span, body, text, eqs,
                   k, calls, sections, out>>

ExtractText ==
    /\ pc = "extract_text"
    /\ \E read \in BOOLEAN :
          \E res \in {extract_text_from_pdf(raw, read)} :
              IF res.raised THEN Propagate
              ELSE /\ full_text' = res.value
                   /\ pc' = "extract_title"
                   /\ UNCHANGED <<client, raw, tables, title, span, body, text,
                                  eqs, k, calls, sections, out>>

ExtractTitle ==
    /\ pc = "extract_title"
    /\ title' = extract_title(full_text)
    /\ pc' = "extract_tables"
    /\ UNCHANGED <<client, raw, full_text, tables, span, body, text, eqs, k,
                   calls, sections, out>>

\* extract_tables_from_pdf: the tables read before pdfplumber raised, if it did
ExtractTables ==
    /\ pc = "extract_tables"
    /\ \E n \in 0..Len(raw.tables) :
          \E res \in {extract_tables_from_pdf(raw, n)} :
              IF res.raised THEN Propagate
              ELSE /\ tables' = res.value
                   /\ pc' = "find_abstract"
                   /\ UNCHANGED <<client, raw, full_text, title, span, body,
                                  text, eqs, k, calls, sections, out>>

FindAbstract ==
    /\ pc = "find_abstract"
    /\ span' = find_abstract_section(full_text)
    /\ pc' = "select_body"
    /\ UNCHANGED <<client, raw, full_text, tables, title, body, text, eqs, k,
                   calls, sections, out>>

SelectBody ==
    /\ pc = "select_body"
    /\ body' = content_from_abstract(full_text, span[1])
    /\ pc' = "process_content"
    /\ UNCHANGED <<client, raw, full_text, tables, title, span, text, eqs, k,
                   calls, sections, out>>

\* process_content, lines 421-425
StartContent ==
    /\ pc = "process_content"
    /\ text' = remove_urls(body)
    /\ eqs' = EquationMatches(text')
    /\ k' = 1
    /\ pc' = NextStatement("equations", Len(eqs'), Len(tables))
    /\ UNCHANGED <<client, raw, full_text, tables, title, span, body, calls,
                   sections, out>>

\* one turn of the loop of lines 427-430
DescribeEquation ==
    /\ pc = "equations"
    /\ \E r \in RemoteOutcomes(client) :
          \E res \in {describe_equation(client, eqs[k], r)} :
              IF res.raised THEN Propagate
              ELSE /\ text' = ReplaceEquation(text, eqs[k], res.value)
                   /\ calls' = Append(calls,
                          [op |-> "equation", item |-> eqs[k], n |-> k,
                           remote |-> client, failed |-> client /\ ~r.ok,
                           description |-> res.value])
                   /\ k' = IF k < Len(eqs) THEN k + 1 ELSE 1
                   /\ pc' = NextStatement("equations", Len(eqs) - k, Len(tables))
                   /\ UNCHANGED <<client, raw, full_text, tables, title, span,
                                  body, eqs, sections, out>>

\* one turn of the loop of lines 433-441; k is i + 1
DescribeTable ==
    /\ pc = "tables"
    /\ \E r \in RemoteOutcomes(client) :
          \E res \in {describe_table(client, tables[k], r)} :
              IF res.raised THEN Propagate
              ELSE /\ text' = InsertTable(text, k, res.value)
                   /\ calls' = Append(calls,
                          [op |-> "table", item |-> tables[k], n |-> k,
                           remote |-> client, failed |-> client /\ ~r.ok,
                           description |-> res.value])
                   /\ k' = IF k < Len(tables) THEN k + 1 ELSE 1
                   /\ pc' = NextStatement("tables", 0, Len(tables) - k)
                   /\ UNCHANGED <<client, raw, full_text, tables, title, span,
                                  body, eqs, sections, out>>

\* line 575; text is what process_content returned
ParseSections ==
    /\ pc = "parse_sections"
    /\ \E r \in SectionReplies(client) :
          \E res \in {parse_sections(client, text, r)} :
              IF res.raised THEN Propagate
              ELSE /\ sections' = res.value
                   /\ pc' = "create_pdf"
                   /\ UNCHANGED <<client, raw, full_text, tables, title, span,
                                  body, text, eqs, k, calls, out>>

\* line 588: create_formatted_pdf is called with title and sections, and
\* doc.build writes the file or raises
CreatePdf ==
    /\ pc = "create_pdf"
    /\ out' = [title |-> title, sections |-> sections, called |-> TRUE]
    /\ \E written \in BOOLEAN : pc' = IF written THEN "done" ELSE "raised"
    /\ UNCHANGED <<client, raw, full_text, tables, title, span, body, text, eqs,
                   k, calls, sections>>

-----------------------------------------------------------------------------
(* The documents of the model *)

\* every text made of at most n of the given pieces
TextsOf(pieces, n) ==
    {Flatten(q) : q \in UNION {[1..m -> pieces] : m \in 0..n}}

\* n characters of the word w, repeated
Para(w, n) == [i \in 1..n |-> w[((i - 1) % Len(w)) + 1]]

S_title_line == <<"A"," ","S","t","u","d","y"," ","o","f"," ","S","o","m","e","t","h","i","n","g"," ","I","n","t","e","r","e","s","t","i","n","g">>
S_Abstract == <<"A","b","s","t","r","a","c","t">>
S_Introduction == <<"I","n","t","r","o","d","u","c","t","i","o","n">>
S_Conclusion == <<"C","o","n","c","l","u","s","i","o","n">>

ParaWords == { <<"x">>, <<"l","o","r","e","m"," ">> }

\* a title line, then Abstract, Introduction and Conclusion, each with a
\* paragraph of 100, 120 and 80 characters, each on its own line
ScenarioText(w) ==
    S_title_line \o <<"\n">> \o S_Abstract \o <<"\n">> \o Para(w, 100)
    \o <<"\n">> \o S_Introduction \o <<"\n">> \o Para(w, 120)
    \o <<"\n">> \o S_Conclusion \o <<"\n">> \o Para(w, 80)

ScenarioTexts == {ScenarioText(w) : w \in ParaWords}

MaxDocPieces == 2

DocPieces ==
    { S_title_line \o <<"\n">>, S_Abstract \o <<"\n">>,
      S_Introduction \o <<"\n">>, <<"$","x","$"," ">>,
      <<"T","a","b","l","e"," ","1"," ">> }

DocTexts == ScenarioTexts \cup TextsOf(DocPieces, MaxDocPieces)

\* a table of two rows: the header cells "h" and None, the cells "1" and "2"
SampleTable == << << <<"h">>, <<>> >>, << <<"1">>, <<"2">> >> >>

DocTables == { <<>>, <<SampleTable>> }

NoDocument == [text |-> <<>>, tables |-> <<>>]
NotCalled == [title |-> <<>>, sections |-> <<>>, called |-> FALSE]

\* process_pdf is called
Init ==
    /\ pc = "extract_text"
    /\ client \in BOOLEAN
    /\ raw \in [text : DocTexts, tables : DocTables]
    /\ full_text = <<>> /\ tables = <<>> /\ title = <<>> /\ span = <<-1, -1>>
    /\ body = <<>> /\ text = <<>> /\ eqs = <<>> /\ k = 1 /\ calls = <<>>
    /\ sections = <<>> /\ out = NotCalled

Next ==
    \/ ExtractText \/ ExtractTitle \/ ExtractTables \/ FindAbstract
    \/ SelectBody \/ StartContent \/ DescribeEquation \/ DescribeTable
    \/ ParseSections \/ CreatePdf

Spec == Init /\ [][Next]_vars

-----------------------------------------------------------------------------
(* remove_urls alone: process_content is entered with a body made of the
   pieces of URLs, DOIs and addresses, and of whitespace *)

MaxNormPieces == 4

S_email == <<"a","@","b",".","c","o">>

NormPieces ==
    { <<"h","t","t","p",":","/">>, <<"/">>, <<"x">>, S_email, S_www, S_doi,
      <<" ">>, <<"\n">> }

NormTexts == TextsOf(NormPieces, MaxNormPieces)

InitNorm ==
    /\ pc = "process_content"
    /\ client = FALSE
    /\ raw = NoDocument
    /\ body \in NormTexts
    /\ full_text = <<>> /\ tables = <<>> /\ title = <<>> /\ span = <<-1, -1>>
    /\ text = <<>> /\ eqs = <<>> /\ k = 1 /\ calls = <<>>
    /\ sections = <<>> /\ out = NotCalled

SpecNorm == InitNorm /\ [][StartContent]_vars

\* the text holds something one of the four removal patterns matches
HoldsUrlOrAddress(t) ==
    \/ Search(t, HttpUrlEnd) # -1
    \/ Search(t, WwwUrlEnd) # -1
    \/ Search(t, DoiEnd) # -1
    \/ Search(t, EmailEnd) # -1

\* every run of whitespace is one space, and none leads or trails
WhitespaceNormalized(t) ==
    /\ \A i \in 1..Len(t) : IsSpace(t[i]) => t[i] = " "
    /\ \A i \in 1..(Len(t) - 1) : ~(t[i] = " " /\ t[i + 1] = " ")
    /\ t # <<>> => t[1] # " " /\ t[Len(t)] # " "

\* C8: after remove_urls the text holds no http(s) or www URL, no doi: token
\* and no email address, every whitespace run is one space, the text is
\* trimmed, and the empty text gives the empty text
C8_RemoveUrlsLeavesNone ==
    pc # "process_content" =>
        /\ ~HoldsUrlOrAddress(text)
        /\ WhitespaceNormalized(text)
        /\ body = <<>> => text = <<>>

-----------------------------------------------------------------------------
(* extract_title alone: process_pdf is at line 550 with a text made of lines *)

MaxTitleLines == 4

S_padded_title == <<" "," ","A"," ","P","a","d","d","e","d"," ","T","i","t","l","e"," ","L","i","n","e"," "," ">>
S_padded_short == <<" "," ","N","i","n","e"," ","c","h","a","r"," "," ">>
S_affiliation == <<"U","n","i","v","e","r","s","i","t","y"," ","o","f"," ","N","o","w","h","e","r","e">>
S_dated == <<"T","r","e","n","d","s"," ","o","f"," ","2","0","2","1"," ","s","u","r","v","e","y","s">>

\* five lines of one character each
FiveShortLines == <<"x","\n","x","\n","x","\n","x","\n","x","\n">>

\* lines: a title, a title and a nine-character line between spaces, a line
\* with a marker, a line with a year, five short lines, a line of 301
TitlePieces ==
    { S_title_line \o <<"\n">>, S_padded_title \o <<"\n">>,
      S_padded_short \o <<"\n">>, S_affiliation \o <<"\n">>,
      S_dated \o <<"\n">>, FiveShortLines,
      Para(<<"x">>, TitleMaxLen + 1) \o <<"\n">> }

TitleTexts == TextsOf(TitlePieces, MaxTitleLines)

InitTitle ==
    /\ pc = "extract_title"
    /\ client = FALSE
    /\ raw = NoDocument
    /\ full_text \in TitleTexts
    /\ tables = <<>> /\ title = <<>> /\ span = <<-1, -1>>
    /\ body = <<>> /\ text = <<>> /\ eqs = <<>> /\ k = 1 /\ calls = <<>>
    /\ sections = <<>> /\ out = NotCalled

SpecTitle == InitTitle /\ [][ExtractTitle]_vars

\* the rejection rules as the specification lists them
RejectedAsTitle(line) ==
    LET low == Lower(line)
    IN  \/ Len(line) < 10 \/ Len(line) > 300
        \/ \E x \in HeaderMarkers \cup MetadataMarkers : Contains(low, x)
        \/ \E i \in 1..(Len(line) - 3) : \A j \in 0..3 : IsDigit(line[i + j])
        \/ \E i \in 0..Len(line) :
              \/ WholeWordEnd(low, S_page, i) # -1
              \/ WholeWordEnd(low, S_vol, i) # -1

\* t is the title the three rules give for these lines
IsTitleOf(t, lines) ==
    LET survivors == {i \in 1..Min({15, Len(lines)}) : ~RejectedAsTitle(lines[i])}
        long == {i \in 1..Min({5, Len(lines)}) : Len(lines[i]) > 15}
    IN  IF survivors # {} THEN t = lines[Min(survivors)]
        ELSE IF long # {}
        THEN \E i \in long : /\ t = lines[i]
                             /\ \A j \in long : Len(lines[j]) <= Len(lines[i])
        ELSE t = S_untitled

StripAll(lines) == [i \in 1..Len(lines) |-> Strip(lines[i])]

StrippedLines(t) == StripAll(SplitLines(t))

\* C7 as stated: extract_title returns a non-empty string, the first of the
\* first 15 lines that survives the rejection rules, else the longest line of
\* more than 15 characters among the first 5, else "Untitled Document"
C7_TitleOfLines ==
    pc # "extract_title" =>
        /\ pc # "raised"
        /\ title # <<>>
        /\ IsTitleOf(title, SplitLines(full_text))

\* C7, amended: the same, every line first trimmed of the whitespace around it
C7_TitleOfStrippedLines ==
    pc # "extract_title" =>
        /\ pc # "raised"
        /\ title # <<>>
        /\ IsTitleOf(title, StrippedLines(full_text))

\* the title is a line that had whitespace around it, and lines were rejected
\* before it
C7_Witness ==
    /\ pc = "extract_tables"
    /\ title = Strip(S_padded_title)
    /\ SplitLines(full_text)[1] # S_padded_title

\* the fallback gave the title
C7_WitnessFallback ==
    /\ pc = "extract_tables"
    /\ title = S_affiliation

-----------------------------------------------------------------------------
(* find_abstract_section alone: process_pdf is at line 556 with a text made of
   the words the patterns look for *)

MaxAbsPieces == 4

S_Summary == <<"S","u","m","m","a","r","y">>

\* eight capital dotted I in a row
DottedRun == Para(<<"U+0130">>, 8)

AbsPieces ==
    { S_Abstract, S_Summary, S_Introduction, S_keywords, <<" ">>, <<"1">>,
      <<"U+0130">>, DottedRun }

AbsTexts == TextsOf(AbsPieces, MaxAbsPieces)

InitAbs ==
    /\ pc = "find_abstract"
    /\ client = FALSE
    /\ raw = NoDocument
    /\ full_text \in AbsTexts
    /\ tables = <<>> /\ title = <<>> /\ span = <<-1, -1>>
    /\ body = <<>> /\ text = <<>> /\ eqs = <<>> /\ k = 1 /\ calls = <<>>
    /\ sections = <<>> /\ out = NotCalled

SpecAbs == InitAbs /\ [][FindAbstract]_vars

\* C5: find_abstract_section returns (-1, -1), or a span (start, end) with
\* 0 <= start < end <= len(text)
C5_SpanInsideText ==
    pc # "find_abstract" =>
        \/ span = <<-1, -1>>
        \/ /\ 0 <= span[1]
           /\ span[1] < span[2]
           /\ span[2] <= Len(full_text)

\* the text with every character that has a one-character lower case in that
\* case: a text of the same length, to match without regard to case
SameCase(t) ==
    [i \in 1..Len(t) |-> IF Len(LowerCh(t[i])) = 1 THEN LowerCh(t[i])[1] ELSE t[i]]

\* the offsets of t, from offset from on, where the pattern matches the text
\* after from
MatchesAfter(t, from, MatchEnd(_, _)) ==
    {i \in from..Len(t) : MatchEnd(SliceFrom(t, from), i - from) # -1}

\* the span of the two-phase priority search over the offsets of t
PrioritySpan(t) ==
    LET u == SameCase(t)
        abstracts == MatchesAfter(u, 0, AbstractEnd)
        summaries == MatchesAfter(u, 0, SummaryEnd)
        start == IF abstracts # {} THEN Min(abstracts)
                 ELSE IF summaries # {} THEN Min(summaries) ELSE -1
        intros   == MatchesAfter(u, start, IntroductionEnd)
        numbered == MatchesAfter(u, start, NumberedIntroductionEnd)
        keywords == MatchesAfter(u, start, KeywordsEnd)
    IN  IF start = -1 THEN <<-1, -1>>
        ELSE IF intros # {} THEN <<start, Min(intros)>>
        ELSE IF numbered # {} THEN <<start, Min(numbered)>>
        ELSE IF keywords # {} THEN <<start, Min(keywords)>>
        ELSE <<start, Len(t)>>

\* C6: start is the offset in the text of the first whole-word "abstract" in
\* any case, else of the first "summary", else the span is absent; end is the
\* first match after start of the first of "introduction", "1. introduction",
\* "keywords" that matches at all, else the length of the text
C6_TwoPhasePriority ==
    pc # "find_abstract" => span = PrioritySpan(full_text)

-----------------------------------------------------------------------------
(* The body selection of process_pdf alone: lines 556-569, on a text of
   headings, words and long paragraphs *)

MaxBodyPieces == 3

S_numbered_intro == <<"1","."," ","i","n","t","r","o","d","u","c","t","i","o","n"," ">>

\* the paragraph is half of HeaderSkip long
BodyPieces ==
    { S_Abstract \o <<" ">>, S_Summary \o <<" ">>, S_Introduction \o <<" ">>,
      S_numbered_intro, Para(<<"x">>, 250), <<"U+0130">> }

BodyTexts == TextsOf(BodyPieces, MaxBodyPieces)

InitBody ==
    /\ pc = "find_abstract"
    /\ client = FALSE
    /\ raw = NoDocument
    /\ full_text \in BodyTexts
    /\ tables = <<>> /\ title = <<>> /\ span = <<-1, -1>>
    /\ body = <<>> /\ text = <<>> /\ eqs = <<>> /\ k = 1 /\ calls = <<>>
    /\ sections = <<>> /\ out = NotCalled

NextBody == FindAbstract \/ SelectBody

SpecBody == InitBody /\ [][NextBody]_vars

\* the word "introduction" stands at offset j of t, letter case ignored
IntroductionWordAt(t, j) ==
    /\ StartsWithAtIC(t, S_introduction, j)
    /\ WordBoundary(t, j + Len(S_introduction))

\* the offsets of t where the word "introduction" starts, or where its number
\* starts: a 1, then whitespace with at most one full stop in it, then the word
IntroductionOffsets(t) ==
    {i \in 0..Len(t) :
        /\ WordBoundary(t, i)
        /\ \/ IntroductionWordAt(t, i)
           \/ /\ StartsWithAt(t, <<"1">>, i)
              /\ \E j \in (i + 1)..Len(t) :
                    /\ IntroductionWordAt(t, j)
                    /\ \A m \in (i + 2)..j : IsSpace(t[m]) \/ t[m] = "."
                    /\ Cardinality({m \in (i + 2)..j : t[m] = "."}) <= 1}

\* the cascade: the abstract's start when it is > 0, else the first
\* introduction, else offset 500 of a text longer than 500, else offset 0
CascadeOffset(t, start) ==
    IF start > 0 THEN start
    ELSE IF IntroductionOffsets(t) # {} THEN Min(IntroductionOffsets(t))
    ELSE IF Len(t) > HeaderSkip THEN HeaderSkip
    ELSE 0

C18_AbstractNeverCut ==
    (pc = "process_content" /\ span[1] >= 0) =>
        body = SliceFrom(full_text, span[1])

-----------------------------------------------------------------------------
(* process_content alone: it is entered with a body of equations, words and a
   table reference, with or without a remote describer and a table *)

MaxSubPieces == 3

SubPieces ==
    { <<"$","a","$">>, <<"$","$","a","$","$">>, <<"$","b","=","c","$">>,
      <<" ">>, <<"x">>, <<"T","a","b","l","e"," ","1">> }

SubTexts == TextsOf(SubPieces, MaxSubPieces)

InitSub ==
    /\ pc = "process_content"
    /\ client \in BOOLEAN
    /\ raw = NoDocument
    /\ body \in SubTexts
    /\ tables \in DocTables
    /\ full_text = <<>> /\ title = <<>> /\ span = <<-1, -1>>
    /\ text = <<>> /\ eqs = <<>> /\ k = 1 /\ calls = <<>>
    /\ sections = <<>> /\ out = NotCalled

NextSub == StartContent \/ DescribeEquation \/ DescribeTable

SpecSub == InitSub /\ [][NextSub]_vars

\* what the rule-based describer of the call's kind gives for its item
RuleBasedFor(call) ==
    IF call.op = "equation" THEN describe_equation_rule_based(call.item)
    ELSE describe_table_rule_based(call.item)

\* C4: a remote describer call that fails gives exactly the rule-based
\* description of the same item; the failure does not leave process_content,
\* which goes on to every later item, and the remote describer is tried
\* again for each of them
C4_FallbackPerItem ==
    /\ pc # "raised"
    /\ \A i \in 1..Len(calls) :
          /\ calls[i].remote = client
          /\ calls[i].failed => calls[i].description = RuleBasedFor(calls[i])
    /\ pc = "parse_sections" => Len(calls) = Len(eqs) + Len(tables)

\* a remote call failed, and a later item was described remotely
C4_Witness ==
    /\ pc = "parse_sections"
    /\ \E i, j \in 1..Len(calls) :
          /\ i < j
          /\ calls[i].failed
          /\ calls[j].remote /\ ~calls[j].failed

\* the loop over the equations has ended and no table is inserted yet
EquationsDone ==
    /\ pc \in {"tables", "parse_sections"}
    /\ Len(calls) = Len(eqs)

\* the description the first call for the equation e returned
FirstDescription(e) ==
    calls[Min({i \in 1..Len(calls) : calls[i].item = e})].description

\* s from offset i on, each match of the equation pattern replaced by the
\* block of its description
RECURSIVE EachMatchReplaced(_, _, _)
EachMatchReplaced(s, ends, i) ==
    LET starts == {j \in i..(Len(s) - 1) : ends[j] # -1}
    IN  IF starts = {} THEN SliceFrom(s, i)
        ELSE LET j == Min(starts)
             IN  Slice(s, i, j)
                 \o EquationBlock(FirstDescription(Slice(s, j, ends[j])))
                 \o EachMatchReplaced(s, ends, ends[j])

\* the calls made for the n first matches, each replacing in turn every
\* occurrence of its equation in the text as it then stands
RECURSIVE ReplacedInTurn(_, _, _)
ReplacedInTurn(s, cs, n) ==
    IF n = 0 THEN s
    ELSE Replace(ReplacedInTurn(s, cs, n - 1), cs[n].item,
                 EquationBlock(cs[n].description))

\* C9 as stated: the describer is called once per match, in order, and every
\* occurrence of each matched equation is replaced by the block of its
\* description
C9_EveryOccurrenceReplaced ==
    EquationsDone =>
        /\ [i \in 1..Len(calls) |-> calls[i].item] = EquationMatches(remove_urls(body))
        /\ text = EachMatchReplaced(remove_urls(body),
                      [i \in 0..Len(remove_urls(body)) |->
                          EquationEnd(remove_urls(body), i)], 0)

\* C9, amended: the describer is called once per match of the normalized
\* text, in order; each call replaces every occurrence of its equation in
\* the text as it then stands; and an equation that is all the matches has
\* every occurrence replaced by one and the same text
C9_ReplacedInTurn ==
    /\ pc \notin {"process_content", "raised"} =>
          /\ eqs = EquationMatches(remove_urls(body))
          /\ Len(calls) >= Len(eqs) =>
                [i \in 1..Len(eqs) |-> calls[i].item] = eqs
    /\ pc = "equations" =>
          /\ Len(calls) = k - 1
          /\ text = ReplacedInTurn(remove_urls(body), calls, k - 1)
    /\ EquationsDone =>
          /\ text = ReplacedInTurn(remove_urls(body), calls, Len(eqs))
          /\ (Len(eqs) >= 2 /\ \A i \in 1..Len(eqs) : eqs[i] = eqs[1]) =>
                text = Replace(remove_urls(body), eqs[1],
                           ReplacedInTurn(EquationBlock(calls[1].description),
                                          Tail(calls), Len(eqs) - 1))

\* an equation matched twice was described twice, differently, and the loop
\* has ended
C9_Witness ==
    /\ EquationsDone
    /\ Len(eqs) = 2 /\ eqs[1] = eqs[2]
    /\ calls[1].description # calls[2].description

\* C10: when process_content returns, its text holds no span the equation
\* pattern matches: no $...$, no $$...$$, no \begin{equation}...\end{equation}
C10_NoRawEquationLeft ==
    pc = "parse_sections" => EquationMatches(text) = <<>>

-----------------------------------------------------------------------------
(* process_content with up to two tables: the body mentions tables, and a cell
   of a table may itself mention one, on two lines *)

MaxTabPieces == 3

\* a table of one row and one cell, the cell's text on two lines
S_two_line_cell == <<"T","a","b","l","e","\n","2">>
RefTable == << << S_two_line_cell >> >>

TabPieces ==
    { <<"T","a","b","l","e"," ","1">>, <<"T","A","B","L","E"," ","2">>,
      <<"t","a","b","l","e"," ","1","2">>, <<" ">>, <<"$","a","$">> }

TabTexts == TextsOf(TabPieces, MaxTabPieces)

TabTables == TextsOf({ <<SampleTable>>, <<RefTable>> }, 2)

InitTab ==
    /\ pc = "process_content"
    /\ client \in BOOLEAN
    /\ raw = NoDocument
    /\ body \in TabTexts
    /\ tables \in TabTables
    /\ full_text = <<>> /\ title = <<>> /\ span = <<-1, -1>>
    /\ text = <<>> /\ eqs = <<>> /\ k = 1 /\ calls = <<>>
    /\ sections = <<>> /\ out = NotCalled

SpecTab == InitTab /\ [][NextSub]_vars

\* the end of the first occurrence in s of the phrase "Table n", one space
\* between the word and the number, letter case ignored; -1 if there is none
LiteralPhraseEnd(s, n) ==
    LET phrase == S_table \o <<" ">> \o Str(n)
        at == {i \in 0..Len(s) : StartsWithAtIC(s, phrase, i)}
    IN  IF at = {} THEN -1 ELSE Min(at) + Len(phrase)

\* the end of the first occurrence in s of the word "Table", letter case
\* ignored, then m >= 1 whitespace characters, then the digits of n; -1 if
\* there is none
SpacedPhraseEnd(s, n) ==
    LET gap(i) == {m \in 1..(Len(s) - i - Len(S_table)) :
                      /\ \A j \in 1..m : IsSpace(s[i + Len(S_table) + j])
                      /\ StartsWithAt(s, Str(n), i + Len(S_table) + m)}
        occ == {i \in 0..Len(s) :
                   StartsWithAtIC(s, S_table, i) /\ gap(i) # {}}
    IN  IF occ = {} THEN -1
        ELSE Min(occ) + Len(S_table) + Min(gap(Min(occ))) + Len(Str(n))

\* the tables described so far
TablesDone == Cardinality({i \in 1..Len(calls) : calls[i].op = "table"})

\* one turn of the loop over the tables, the phrase of the table being the one
\* PhraseEnd looks for: the turn is that of the next table in extraction
\* order, numbered from 1; the block of its description goes in right after
\* the first phrase and the rest of the text stays; without a phrase the text
\* stays as it is and holds no block of that table
TableTurn(PhraseEnd(_, _)) ==
    pc = "tables" =>
        LET n == TablesDone + 1
            call == calls'[Len(calls')]
            e == PhraseEnd(text, n)
        IN  /\ Len(calls') = Len(calls) + 1
            /\ call.op = "table" /\ call.n = n /\ call.item = tables[n]
            /\ IF e = -1
               THEN /\ text' = text
                    /\ ~Contains(text', TableMarker(n, call.description))
               ELSE text' = Slice(text, 0, e)
                            \o TableMarker(n, call.description)
                            \o SliceFrom(text, e)
            /\ (pc' = "parse_sections") <=> (n = Len(tables))

\* C11 as stated: tables are handled in extraction order, numbered from 1;
\* when the current text holds the phrase "Table i" (letter case ignored)
\* the block "\n\n[Table i: <description>]\n\n" goes in right after the
\* first occurrence and nothing else changes; when it does not, the table
\* leaves the text unchanged and its block appears nowhere
C11_InsertedAfterPhrase == [][TableTurn(LiteralPhraseEnd)]_vars

\* C11, amended: the same, the phrase being the word "Table", one or more
\* whitespace characters of any kind, and the number i
C11_InsertedAfterReference == [][TableTurn(SpacedPhraseEnd)]_vars

\* two tables were handled: the first has no phrase in the text and left no
\* block, the second has its block right after "TABLE 2"
C11_Witness ==
    /\ pc = "parse_sections"
    /\ TablesDone = 2
    /\ LiteralPhraseEnd(remove_urls(body), 1) = -1
    /\ ~Contains(text, S_table_open \o <<"1">>)
    /\ \E i \in 0..Len(text) :
          StartsWithAt(text, <<"T","A","B","L","E"," ","2">>
                             \o TableMarker(2, calls[Len(calls)].description), i)

-----------------------------------------------------------------------------
(* parse_sections alone: process_pdf is at line 575 with a text made of header
   lines and paragraphs, with or without a remote segmenter *)

MaxSegPieces == 4

S_numbered_header == <<"1","."," ","M","e","t","h","o","d","s">>
S_caps_header == <<"R","E","S","U","L","T","S">>
S_labelled_line == <<"N","o","t","e",":"," ","(","x",")">>

\* header lines between newlines, a paragraph of 60 characters, a short text,
\* and a line that the test of line 238 drops
SegPieces ==
    { <<"\n">> \o S_Abstract \o <<"\n">>,
      <<"\n">> \o S_numbered_header \o <<"\n">>,
      <<"\n">> \o S_caps_header \o <<"\n">>,
      <<"\n">> \o S_labelled_line \o <<"\n">>,
      Para(<<"l","o","r","e","m"," ">>, 60),
      <<"t","i","n","y">> }

SegTexts == TextsOf(SegPieces, MaxSegPieces)

InitSeg ==
    /\ pc = "parse_sections"
    /\ client \in BOOLEAN
    /\ raw = NoDocument
    /\ text \in SegTexts
    /\ full_text = <<>> /\ tables = <<>> /\ title = <<>> /\ span = <<-1, -1>>
    /\ body = <<>> /\ eqs = <<>> /\ k = 1 /\ calls = <<>>
    /\ sections = <<>> /\ out = NotCalled

SpecSeg == InitSeg /\ [][ParseSections]_vars

\* no header of t survives the filters of lines 238 and 263
NoSectionSurvives(t) == SectionsOf(t, UniqueMatches(HeaderMatches(t))) = <<>>

\* C2: parse_sections returns at least one section for every text, the empty
\* one included; when no header survives the filters it returns exactly the
\* section "Content" holding the whole text, unchanged
C2_NeverEmpty ==
    pc = "create_pdf" =>
        /\ Len(sections) >= 1
        /\ NoSectionSurvives(text) =>
              sections = << [heading |-> S_content, content |-> text] >>

-----------------------------------------------------------------------------
(* _parse_sections_rule_based alone: parse_sections without a remote segmenter,
   on a text of header lines of every family, a line of lowercase words, a
   paragraph, and a header line with a short text after it *)

MaxRulePieces == 3

S_lower_line == <<"l","o","w","e","r"," ","c","a","s","e"," ","l","i","n","e">>
S_short_section == <<"\n","M","e","t","h","o","d","s","\n","t","i","n","y">>

RulePieces ==
    { <<"\n">> \o S_Abstract \o <<"\n">>,
      <<"\n">> \o S_numbered_header \o <<"\n">>,
      <<"\n">> \o S_caps_header \o <<"\n">>,
      <<"\n">> \o S_labelled_line \o <<"\n">>,
      <<"\n">> \o S_lower_line \o <<"\n">>,
      Para(<<"l","o","r","e","m"," ">>, 60),
      S_short_section }

RuleTexts == TextsOf(RulePieces, MaxRulePieces)

InitRule ==
    /\ pc = "parse_sections"
    /\ client = FALSE
    /\ raw = NoDocument
    /\ text \in RuleTexts
    /\ full_text = <<>> /\ tables = <<>> /\ title = <<>> /\ span = <<-1, -1>>
    /\ body = <<>> /\ eqs = <<>> /\ k = 1 /\ calls = <<>>
    /\ sections = <<>> /\ out = NotCalled

SpecRule == InitRule /\ [][ParseSections]_vars

\* the heading candidates of t after deduplication, as <<offset, heading>>
Candidates(t) == UniqueMatches(HeaderMatches(t))

\* where the heading text of the candidate c starts and ends in t: the match
\* starts at c[1] with the newline and the whitespace before the heading
HeadingStart(t, c) == GroupStart(t, c[1])
HeadingEnd(t, c) == HeadingStart(t, c) + Len(c[2])

\* where the slice of the i-th candidate ends: the next candidate's offset, or
\* the end of the text
SliceEnd(t, cs, i) == IF i < Len(cs) THEN cs[i + 1][1] ELSE Len(t)

\* the trimmed text between the end of the i-th heading and the next candidate
TextAfter(t, cs, i) == Strip(Slice(t, HeadingEnd(t, cs[i]), SliceEnd(t, cs, i)))

\* the content lines 255-260 compute for the i-th candidate
SliceContent(t, cs, i) ==
    Strip(SliceFrom(Slice(t, cs[i][1], SliceEnd(t, cs, i)), Len(cs[i][2])))

\* the candidates that line 263 keeps
Surviving(t, cs) ==
    {i \in 1..Len(cs) : Len(SliceContent(t, cs, i)) >= SectionMinLen}

\* C13: the contents of the returned sections cover the non-heading text of
\* the input from the first surviving heading to the end: the text after
\* every heading candidate from there on is in the content of a section
C13_RoundTrip ==
    LET cs == Candidates(text)
    IN  (pc = "create_pdf" /\ Surviving(text, cs) # {}) =>
            \A i \in Min(Surviving(text, cs))..Len(cs) :
                \E j \in 1..Len(sections) :
                    Contains(sections[j].content, TextAfter(text, cs, i))

\* the candidates each family gives for t, in the order of the family list:
\* numbered, all-caps, title-case, whitelist
Families(t) ==
    << FindIter(t, [p \in 0..Len(t) |-> NumberedMatch(t, p)], 0),
       FindIter(t, [p \in 0..Len(t) |-> AllCapsMatch(t, p)], 0),
       FindIter(t, [p \in 0..Len(t) |-> TitleCaseMatch(t, p)], 0),
       FindIter(t, [p \in 0..Len(t) |-> WhitelistMatch(t, p)], 0) >>

\* the families that have a candidate at offset p
FamiliesAt(fams, p) ==
    {f \in 1..Len(fams) : \E i \in 1..Len(fams[f]) : fams[f][i][1] = p}

\* the heading of family f's candidate at offset p
HeadingAt(fams, f, p) ==
    fams[f][CHOOSE i \in 1..Len(fams[f]) : fams[f][i][1] = p][2]

\* C14: after deduplication there is exactly one candidate for every offset
\* at which a family has one, its heading is that of the first family of the
\* list that has a candidate there, and the returned headings are headings of
\* these candidates
C14_FirstFamilyWins ==
    pc = "create_pdf" =>
        LET cs   == Candidates(text)
            fams == Families(text)
        IN  /\ \A i, j \in 1..Len(cs) : i # j => cs[i][1] # cs[j][1]
            /\ {cs[i][1] : i \in 1..Len(cs)}
                  = {p \in 0..Len(text) : FamiliesAt(fams, p) # {}}
            /\ \A i \in 1..Len(cs) :
                  cs[i][2] = HeadingAt(fams, Min(FamiliesAt(fams, cs[i][1])),
                                       cs[i][1])
            /\ Surviving(text, cs) # {} =>
                  \A j \in 1..Len(sections) :
                      \E i \in 1..Len(cs) : sections[j].heading = cs[i][2]

\* two families have candidates with different headings at one offset, and
\* the heading of the first of them is returned
C14_Witness ==
    /\ pc = "create_pdf"
    /\ sections # <<>>
    /\ LET fams == Families(text)
       IN  \E p \in 0..Len(text) :
               /\ Cardinality(FamiliesAt(fams, p)) >= 2
               /\ \E f \in FamiliesAt(fams, p) :
                     /\ HeadingAt(fams, f, p)
                          # HeadingAt(fams, Min(FamiliesAt(fams, p)), p)
                     /\ \A j \in 1..Len(sections) :
                           sections[j].heading # HeadingAt(fams, f, p)
               /\ \E j \in 1..Len(sections) :
                     sections[j].heading
                         = HeadingAt(fams, Min(FamiliesAt(fams, p)), p)

\* C15: the sections are returned in increasing offset order of their
\* headings, and the content of each is exactly the trimmed text between the
\* end of its heading's text and the start of the next heading candidate, or
\* the end of the text: no character of the heading opens its own content
C15_ContentBetweenHeadings ==
    LET cs == Candidates(text)
    IN  (pc = "create_pdf" /\ Surviving(text, cs) # {}) =>
            \E f \in [1..Len(sections) -> 1..Len(cs)] :
                /\ \A j \in 1..(Len(sections) - 1) : f[j] < f[j + 1]
                /\ \A j \in 1..Len(sections) :
                      /\ sections[j].heading = cs[f[j]][2]
                      /\ sections[j].content = TextAfter(text, cs, f[j])

\* the section has a heading and a trimmed content of 50 characters or more
WellFormedSection(sec) ==
    /\ sec.heading # <<>>
    /\ sec.content = Strip(sec.content)
    /\ Len(sec.content) >= SectionMinLen

\* the i-th smallest element of the set S of numbers
RECURSIVE Nth(_, _)
Nth(S, i) == IF i = 1 THEN Min(S) ELSE Nth(S \ {Min(S)}, i - 1)

\* C16 as stated: every returned section, for every input, has a non-empty
\* heading and a trimmed content of at least 50 characters
C16_EverySectionWellFormed ==
    pc = "create_pdf" =>
        \A j \in 1..Len(sections) : WellFormedSection(sections[j])

\* C16, amended: when a heading candidate has a content of at least 50
\* characters, the returned sections are those of exactly these candidates,
\* in order, each with a non-empty heading and a trimmed content of at least
\* 50 characters; when none has, the one section returned is "Content" with
\* the whole text, as it is
C16_SectionsOfSurvivors ==
    LET cs   == Candidates(text)
        kept == Surviving(text, cs)
    IN  pc = "create_pdf" =>
            IF kept = {}
            THEN sections = << [heading |-> S_content, content |-> text] >>
            ELSE /\ Len(sections) = Cardinality(kept)
                 /\ \A j \in 1..Len(sections) :
                       /\ WellFormedSection(sections[j])
                       /\ sections[j].heading = cs[Nth(kept, j)][2]

\* a candidate with a short content was left out and another was returned
C16_Witness ==
    LET cs   == Candidates(text)
        kept == Surviving(text, cs)
    IN  /\ pc = "create_pdf"
        /\ kept # {}
        /\ \E i \in 1..Len(cs) :
              /\ i \notin kept
              /\ SliceContent(text, cs, i) # <<>>
              /\ \A j \in 1..Len(sections) : sections[j].heading # cs[i][2]

\* a number, whitespace, then a phrase of 4 to 61 characters on one line that
\* opens with a capital letter: "1. Introduction", "1.1 Background"
IsNumberedShape(h) ==
    LET q1 == RunEnd(h, 0, IsDigit)
        q2 == IF StartsWithAt(h, <<".">>, q1) THEN q1 + 1 ELSE q1
        q3 == RunEnd(h, q2, IsDigit)
        q4 == IF StartsWithAt(h, <<".">>, q3) THEN q3 + 1 ELSE q3
        q5 == RunEnd(h, q4, IsSpace)
    IN  /\ q1 > 0 /\ q5 > q4 /\ q5 < Len(h)
        /\ IsUpper(h[q5 + 1])
        /\ Len(h) - (q5 + 1) \in NumberedRestMin..NumberedRestMax
        /\ \A j \in (q5 + 1)..Len(h) : h[j] # "\n"

\* capital letters and spaces only, 4 to 51 of them, a capital letter first
IsAllCapsShape(h) ==
    /\ Len(h) \in (CapsRestMin + 1)..(CapsRestMax + 1)
    /\ IsUpper(h[1])
    /\ \A j \in 1..Len(h) : IsUpper(h[j]) \/ h[j] = " "

\* the offsets at which the words of h start
WordStarts(h) ==
    {i \in 0..(Len(h) - 1) :
        ~IsSpace(h[i + 1]) /\ (i = 0 \/ IsSpace(h[i]))}

\* the word of h that starts at offset i is a capital letter followed by one
\* or more lowercase letters
IsTitleWordAt(h, i) ==
    LET e == RunEnd(h, i, IsNotSpace)
    IN  /\ e >= i + 2
        /\ IsUpper(h[i + 1])
        /\ \A j \in (i + 2)..e : IsLower(h[j])

\* 1 to 5 words, each a title-case word
IsTitleCaseShape(h) ==
    /\ Cardinality(WordStarts(h)) \in 1..(TitleCaseMoreWords + 1)
    /\ \A i \in WordStarts(h) : IsTitleWordAt(h, i)

\* a section name of the whitelist, in any letter case
IsWhitelistedName(h) ==
    \E i \in 1..Len(SectionNames) :
        Len(h) = Len(SectionNames[i]) /\ StartsWithAtIC(h, SectionNames[i], 0)

\* C17: every returned heading other than the synthetic "Content" has 3 or
\* more characters, none of : ( ) [ ], and the shape of one of the four
\* families: a number and a capitalized phrase, an all-capitals phrase, 1 to
\* 5 title-case words, or a whitelisted name in any letter case; so no line
\* of lowercase, non-whitelisted words is a heading
C17_HeadingShapes ==
    (pc = "create_pdf" /\ Surviving(text, Candidates(text)) # {}) =>
        \A j \in 1..Len(sections) :
            LET h == sections[j].heading
            IN  /\ Len(h) >= HeaderMinLen
                /\ \A m \in 1..Len(h) : h[m] \notin HeaderSpecialChars
                /\ \/ IsNumberedShape(h)
                   \/ IsAllCapsShape(h)
                   \/ IsTitleCaseShape(h)
                   \/ IsWhitelistedName(h)

-----------------------------------------------------------------------------
(* process_pdf, under Spec *)

\* hs is drawn from names, in the order of names
DrawnInOrder(hs, names) ==
    \E f \in [1..Len(hs) -> 1..Len(names)] :
        /\ \A i \in 1..Len(hs) : hs[i] = names[f[i]]
        /\ \A i \in 1..(Len(hs) - 1) : f[i] < f[i + 1]

\* C1: for a text of a title line, Abstract, a paragraph of 100, Introduction,
\* a paragraph of 120, Conclusion and a paragraph of 80, each on its line, no
\* table and no remote describer, the writer is handed the first line as the
\* title and at least 2 sections, their headings drawn in order from Abstract,
\* Introduction, Conclusion
C1_ScenarioSections ==
    (/\ out.called
     /\ ~client
     /\ raw.text \in ScenarioTexts
     /\ raw.tables = <<>>
     /\ full_text # <<>>)
    => /\ out.title = S_title_line
       /\ out.title # S_untitled
       /\ Len(out.sections) >= 2
       /\ DrawnInOrder([i \in 1..Len(out.sections) |-> out.sections[i].heading],
                       <<S_Abstract, S_Introduction, S_Conclusion>>)

\* the statements of process_pdf, in their order
Stages ==
    <<"extract_text", "extract_title", "extract_tables", "find_abstract",
      "select_body", "process_content", "equations", "tables",
      "parse_sections", "create_pdf", "done">>

\* how far process_pdf is: an exception is past every statement
StageOf(at) ==
    IF at = "raised" THEN Len(Stages) + 1
    ELSE CHOOSE i \in 1..Len(Stages) : Stages[i] = at

\* C3: for every extracted text, the empty one included, and whatever
\* extraction and the describers do, process_pdf goes through its stages in
\* order up to create_formatted_pdf, which it calls with a non-empty title
\* and at least one section; only the writer ends the run with an exception
C3_AlwaysReachesWriter ==
    /\ pc = "raised" => out.called
    /\ title # <<>> <=> StageOf(pc) > StageOf("extract_title")
    /\ calls # <<>> => StageOf(pc) > StageOf("process_content")
    /\ sections # <<>> => StageOf(pc) > StageOf("parse_sections")
    /\ out.called <=> StageOf(pc) > StageOf("create_pdf")
    /\ out.called => out.title # <<>> /\ Len(out.sections) >= 1

=============================================================================
